---- MODULE Spec2Model ----
(***************************************************************************)
(* State-machine model of the match-history collector:                     *)
(*   src/src/collector.rs   RateControl, Collector (collect, request,      *)
(*                          save, run)                                     *)
(*   src/src/dota2/mod.rs   Side, MatchMask (roster -> two-sided bit mask) *)
(*   src/src/database.rs    Database::query_matches                        *)
(* Durations are integers in nanoseconds, as in std::time::Duration.       *)
(* A U256 mask is the natural number with the same bits.                   *)
(***************************************************************************)
EXTENDS Integers, Sequences, FiniteSets, TLC

(***************************************************************************)
(* Bounds of the model.                                                    *)
(***************************************************************************)
\* min_interval and max_interval range over 0..MaxMillis milliseconds
MaxMillis == 3
\* hero identities range over 0..MaxHero (u8 in the source)
MaxHero == 2
\* players per match record (Vec<Player>, ten in the live feed)
NumPlayers == 2
\* match_seq_num of a fetched match ranges over 0..MaxSeqNum
MaxSeqNum == 2
\* a run issues at most MaxRequests requests
MaxRequests == 4
\* at most MaxEntries masks are pushed into the buckets in one behaviour
MaxEntries == 4
\* credentials given on the command line: 0..MaxKeys
MaxKeys == 2
\* insert_batch_size ranges over 1..MaxBatch
MaxBatch == 2
\* speed_up / slow_down calls made on a RateControl standing alone
MaxCalls == 6
\* calls of request over the narrow feed, and successful calls of save,
\* made directly
MaxApiCalls == 2
\* times MatchMask::from is applied to one match record
MaxApply == 2
\* a sleep ends, and a fetch is answered, 0..MaxLate milliseconds after it
\* could at the earliest
MaxLate == 1

(***************************************************************************)
(* Program constants.                                                      *)
(***************************************************************************)
\* Duration::from_millis: nanoseconds per millisecond
NanosPerMilli == 1000000
\* the page size asked of get_match_history_full (100 in the source),
\* scaled to 2 so that full and short pages can both be enumerated
PageSize == 2
\* the cooldown after a transient failure, Duration::from_secs(5)
CooldownSecs == 5
\* heroes per side of a drafts row, Tuple(UInt8, ...) (5 in the source),
\* scaled to 2
DraftSize == 2

VARIABLES
    match_seq_num,  \* Collector.match_seq_num, the Sequence Cursor
    rate,           \* Collector.rate: [interval, min_interval, max_interval]
    indices,        \* Collector.indices: NonZeroU8 -> Vec<MatchMask>
    keys,           \* Collector.keys: the credentials, in order
    batch,          \* Collector.batch
    pc,             \* where the caller / run() stands
    clt,            \* run: index in clients of the next element of cycle()
    inchunk,        \* run: elements already taken from the current chunk
    todo,           \* save: buckets iter_mut() has not visited yet
    why,            \* save: who called it ("periodic", "fatal", "api")
    err,            \* run: the Err request returned, held across save
    result,         \* what the last finished call returned
    mode,           \* "run": run() drives; "api": request/save called directly
    feed,           \* which pages the fetch collaborator can answer with
    fetched,        \* observation: the last page fetched (wide, tiny feed)
    calls,          \* observation: RateControl calls made by the last request
    slept,          \* observation: seconds slept by the last request
    artifacts,      \* observation: artifact files written (by name)
    handed,         \* observation: the last save_indexed_masks call
    lastfail,       \* observation: the last save_indexed_masks call that
                    \* failed, and how much of that bucket the store had
    persisted,      \* observation: per hero, masks the store accepted
    appended,       \* observation: per hero, masks the feed produced
    nwait,          \* observation: completed RateControl::wait calls
    nfetch,         \* observation: fetches issued
    nreq,           \* observation: requests completed with Ok(())
    nsave,          \* observation: save() calls completed with Ok(())
    streak,         \* observation: transient failures in a row, up to now
    now,            \* the clock: what Instant::now() returns, [secs, nanos]
    last_timestamp, \* RateControl.last_timestamp
    waited,         \* observation: the last completed RateControl::wait
    asked,          \* observation: the last get_match_history_full call
    team1,          \* query_matches: its arguments
    team2,
    limit,
    offset,
    table,          \* the rows of the drafts table
    answer,         \* query_matches: what it returned
    scans,          \* observation: queries sent to the store
    xf_value,       \* MatchMask::from: the match record it is applied to
    xf_mask,        \* MatchMask::from: what it returned
    napplied        \* observation: times the transform was applied

\* the clock and what is observed of it
clock == << now, last_timestamp, waited, asked >>

\* Database::query_matches
db == << team1, team2, limit, offset, table, answer, scans >>

\* MatchMask::from on its own
xf == << xf_value, xf_mask, napplied >>

\* the Collector and what is observed of it
coll == << match_seq_num, rate, indices, keys, batch, pc, clt, inchunk, todo,
           why, err, result, mode, feed, fetched, calls, slept, artifacts,
           handed, lastfail, persisted, appended, nwait, nfetch, nreq, nsave,
           streak >>

vars == << coll, clock, db, xf >>

\* the configuration and the scenario: set once, never changed
conf == << keys, batch, mode, feed >>

(***************************************************************************)
(* std::cmp::max / std::cmp::min                                           *)
(***************************************************************************)
Max(a, b) == IF a >= b THEN a ELSE b

Min(a, b) == IF a <= b THEN a ELSE b

(***************************************************************************)
(* RateControl (collector.rs 13-49)                                        *)
(***************************************************************************)
from_millis(ms) == ms * NanosPerMilli

RateControl_new(min, max) ==
    [ interval     |-> from_millis(min) * 2,
      min_interval |-> from_millis(min),
      max_interval |-> from_millis(max) ]

\* as speed_up, without the lower clamp
speed_up_unclamped(r) ==
    [r EXCEPT !.interval = (r.interval * 9) \div 10]

\* Duration * 9 / 10: u32 multiplication, then division truncating to a
\* whole number of nanoseconds
speed_up(r) ==
    [r EXCEPT !.interval = Max((r.interval * 9) \div 10, r.min_interval)]

slow_down(r) ==
    [r EXCEPT !.interval = Min(r.interval * 2, r.max_interval)]

(***************************************************************************)
(* Instant: seconds and nanoseconds since the start of the clock           *)
(***************************************************************************)
NanosPerSec == 1000 * NanosPerMilli

Epoch == [secs |-> 0, nanos |-> 0]

\* Instant + Duration, the duration below one second
after(t, nanos) ==
    [secs  |-> t.secs + ((t.nanos + nanos) \div NanosPerSec),
     nanos |-> (t.nanos + nanos) % NanosPerSec]

\* Instant + Duration::from_secs(secs)
after_secs(t, secs) == [t EXCEPT !.secs = @ + secs]

\* Instant <= Instant
not_after(a, b) ==
    a.secs < b.secs \/ (a.secs = b.secs /\ a.nanos <= b.nanos)

later_of(a, b) == IF not_after(a, b) THEN b ELSE a

(***************************************************************************)
(* Side and MatchMask (dota2/mod.rs 37-85)                                 *)
(***************************************************************************)
\* value & 0x80 != 0
Side(value) == IF (value \div 128) % 2 # 0 THEN "Dire" ELSE "Radiant"

\* as BitOr, the masks added
BitOr_adds(a, b) == a + b

RECURSIVE BitOr(_, _)
BitOr(a, b) ==
    IF a = 0 THEN b
    ELSE IF b = 0 THEN a
    ELSE (IF a % 2 = 1 \/ b % 2 = 1 THEN 1 ELSE 0)
         + 2 * BitOr(a \div 2, b \div 2)

\* U256::one() << U256::from(hero_id)
HeroMask(hero_id) == 2 ^ hero_id

RECURSIVE MaskFold(_, _)
MaskFold(players, acc) ==
    IF players = << >> THEN acc
    ELSE LET player == Head(players)
             hero_mask == HeroMask(player.hero_id)
         IN  MaskFold(Tail(players),
                 IF Side(player.player_slot) = "Radiant"
                 THEN [acc EXCEPT !.radiant = BitOr(@, hero_mask)]
                 ELSE [acc EXCEPT !.dire = BitOr(@, hero_mask)])

MatchMask_from(value) ==
    MaskFold(value.players,
             [match_id |-> value.match_id, radiant |-> 0, dire |-> 0])

(***************************************************************************)
(* Collector::collect (collector.rs 88-104)                                *)
(***************************************************************************)
\* as entry_push, the bucket replaced by one holding the new mask alone
entry_push_replaces(idx, key, mask) ==
    [k \in DOMAIN idx \cup {key} |-> IF k = key THEN << mask >> ELSE idx[k]]

\* self.indices.entry(key).or_default().push(mask)
entry_push(idx, key, mask) ==
    IF key \in DOMAIN idx
    THEN [idx EXCEPT ![key] = Append(@, mask)]
    ELSE [k \in DOMAIN idx \cup {key} |->
             IF k = key THEN << mask >> ELSE idx[k]]

\* as push_players, without the NonZeroU8::new filter
RECURSIVE push_players_keeps_zero(_, _, _)
push_players_keeps_zero(players, mask, idx) ==
    IF players = << >> THEN idx
    ELSE push_players_keeps_zero(Tail(players), mask,
             entry_push(idx, Head(players).hero_id, mask))

\* mat.players.iter().filter_map(|p| NonZeroU8::new(p.hero_id)).for_each(..)
RECURSIVE push_players(_, _, _)
push_players(players, mask, idx) ==
    IF players = << >> THEN idx
    ELSE LET p == Head(players)
         IN  push_players(Tail(players), mask,
                 IF p.hero_id # 0 THEN entry_push(idx, p.hero_id, mask)
                 ELSE idx)

\* as collect_step, the fold restarting from each match's own number
collect_step_forgets_init(init, idx, mat) ==
    [ right   |-> mat.match_seq_num + 1,
      indices |-> push_players(mat.players, MatchMask_from(mat), idx) ]

\* as collect_step, without the + 1
collect_step_no_successor(init, idx, mat) ==
    [ right   |-> Max(init, mat.match_seq_num),
      indices |-> push_players(mat.players, MatchMask_from(mat), idx) ]

\* the closure folded over matches.matches
collect_step(init, idx, mat) ==
    [ right   |-> Max(init, mat.match_seq_num + 1),
      indices |-> push_players(mat.players, MatchMask_from(mat), idx) ]

RECURSIVE collect_fold(_, _, _)
collect_fold(matches, init, idx) ==
    IF matches = << >> THEN [right |-> init, indices |-> idx]
    ELSE LET s == collect_step(init, idx, Head(matches))
         IN  collect_fold(Tail(matches), s.right, s.indices)

collect(cursor, idx, matches) == collect_fold(matches, cursor, idx)

(***************************************************************************)
(* What the fetch collaborator can answer with.                            *)
(***************************************************************************)
HeroIds == 0 .. MaxHero

NonZeroHeroes == 1 .. MaxHero

\* slot bytes: high bit clear (Radiant) or set (Dire)
Slots == {0, 128}

Players == [player_slot : Slots, hero_id : HeroIds]

Rosters == [1 .. NumPlayers -> Players]

\* three rosters: no hero set, every player on hero 1 (the same hero more
\* than once), player i on hero i (all distinct); Radiant at odd positions
SampleRosters ==
    {[i \in 1 .. NumPlayers |->
         [player_slot |-> (IF i % 2 = 1 THEN 0 ELSE 128),
          hero_id |-> (CASE kind = "none" -> 0
                         [] kind = "same" -> 1
                         [] OTHER -> Min(i, MaxHero))]] :
        kind \in {"none", "same", "distinct"}}

SeqNums == 0 .. MaxSeqNum

\* match_id differs from match_seq_num in every record
MatchesOver(rosters) ==
    {[match_id |-> 10 + s, match_seq_num |-> s, players |-> r] :
        s \in SeqNums, r \in rosters}

SeqsUpTo(S, n) == UNION {[1 .. k -> S] : k \in 0 .. n}

\* a roster without heroes: only the page length and the cursor vary
TinyPages ==
    SeqsUpTo(MatchesOver({[i \in 1 .. NumPlayers |->
                             [player_slot |-> 0, hero_id |-> 0]]}), PageSize)

\* pages over the sample rosters
NarrowPages == SeqsUpTo(MatchesOver(SampleRosters), PageSize)

\* the rosters in which at least one player has hero_id 0; Radiant at odd
\* positions
HoleRosters ==
    {r \in Rosters :
        /\ \E i \in 1 .. NumPlayers : r[i].hero_id = 0
        /\ \A i \in 1 .. NumPlayers :
              r[i].player_slot = (IF i % 2 = 1 THEN 0 ELSE 128)}

\* pages over the rosters with a hero_id 0; the matches differ in their
\* rosters only
HolePages ==
    SeqsUpTo({m \in MatchesOver(HoleRosters) : m.match_seq_num = 0}, PageSize)

\* an empty page, a short page and a full page, the matches in order
PacedPages == {p \in TinyPages : \A i \in DOMAIN p : p[i].match_seq_num = i}

\* pages over every roster, at most one match of a page outside the samples
WidePages ==
    NarrowPages \cup
    {[q EXCEPT ![i] = m] :
        q \in NarrowPages \ {<< >>}, i \in 1 .. PageSize,
        m \in MatchesOver(Rosters)}

FeedPages(f) ==
    CASE f = "wide"   -> WidePages
      [] f = "narrow" -> NarrowPages
      [] f = "holes"  -> HolePages
      [] f = "paced"  -> PacedPages
      [] OTHER        -> TinyPages

\* fetches a behaviour may issue: one over the wide feed, MaxApiCalls when
\* request is called directly over the narrow feed or the one with holes
FetchLimit(f) ==
    CASE f = "wide" -> 1
      [] f \in {"narrow", "holes"} /\ mode = "api" -> MaxApiCalls
      [] OTHER -> MaxRequests

\* masks a behaviour may push into the buckets: a whole page of the wide feed
EntryLimit(f) == IF f = "wide" THEN PageSize * NumPlayers ELSE MaxEntries

(***************************************************************************)
(* Observations kept beside the program state.                             *)
(***************************************************************************)
RECURSIVE Flatten(_)
Flatten(matches) ==
    IF matches = << >> THEN << >>
    ELSE LET mat == Head(matches)
         IN  [i \in 1 .. Len(mat.players) |->
                 [hero |-> mat.players[i].hero_id,
                  mask |-> MatchMask_from(mat)]]
             \o Flatten(Tail(matches))

\* the masks a page yields for hero h: one per player carrying h, in feed order
Produced(matches, h) ==
    LET flat == Flatten(matches)
        keep == SelectSeq(flat, LAMBDA e : e.hero = h)
    IN  [i \in 1 .. Len(keep) |-> keep[i].mask]

\* the number of masks a page pushes: its players with a nonzero hero
Pushes == [m \in WidePages \cup TinyPages \cup HolePages |->
              Len(SelectSeq(Flatten(m), LAMBDA e : e.hero # 0))]

RECURSIVE SumLen(_, _)
SumLen(f, S) ==
    IF S = {} THEN 0
    ELSE LET k == CHOOSE x \in S : TRUE
         IN  Len(f[k]) + SumLen(f, S \ {k})

TotalLen(f) == SumLen(f, DOMAIN f)

NoMasks == [h \in NonZeroHeroes |-> << >>]

NoCall == [key |-> 0, masks |-> << >>, ok |-> TRUE]

NoFail == [key |-> 0, masks |-> << >>, at |-> 0]

\* no wait completed yet, no fetch issued yet
NoWait == [at |-> Epoch, due |-> Epoch, interval |-> 0]

NoAsk == [at |-> Epoch, prev_at |-> Epoch, key |-> 0,
          start_at_match_seq_num |-> 0, matches_requested |-> 0]

\* query_matches not in use: no arguments, no rows, nothing returned
NoQuery ==
    /\ team1 = << >>
    /\ team2 = << >>
    /\ limit = 0
    /\ offset = 0
    /\ table = {}
    /\ answer = << >>
    /\ scans = 0

\* MatchMask::from not in use on its own
NoTransform ==
    /\ xf_value = [match_id |-> 0, match_seq_num |-> 0, players |-> << >>]
    /\ xf_mask = [match_id |-> 0, radiant |-> 0, dire |-> 0]
    /\ napplied = 0

\* format!("{}", n): the decimal digits of n
RECURSIVE ToDecimal(_)
ToDecimal(n) ==
    IF n < 10 THEN << n >> ELSE Append(ToDecimal(n \div 10), n % 10)

\* format!("{}-error.json", self.match_seq_num)
ArtifactName(n) == Append(ToDecimal(n), "-error.json")

(***************************************************************************)
(* Collector::request (collector.rs 106-144), one action per fetch outcome *)
(* The effect on the Collector and on the observations; the caller's       *)
(* position is set by the actions that use these.                          *)
(***************************************************************************)
\* Ok(matches): lines 109-123
request_ok(matches) ==
    LET c == collect(match_seq_num, indices, matches)
        r == speed_up(rate)
        count == Len(matches)
    IN  /\ match_seq_num' = c.right
        /\ indices' = c.indices
        /\ rate' = IF count < PageSize THEN slow_down(r) ELSE r
        /\ calls' = IF count < PageSize THEN << "speed_up", "slow_down" >>
                    ELSE << "speed_up" >>
        /\ slept' = 0
        /\ fetched' = IF feed = "narrow" THEN fetched ELSE matches
        /\ appended' = [h \in NonZeroHeroes |->
                           appended[h] \o Produced(matches, h)]
        /\ nfetch' = nfetch + 1
        /\ nreq' = nreq + 1
        /\ streak' = 0
        /\ UNCHANGED artifacts

\* Err(RequestError::DecodeError(err, content)): lines 124-135.
\* written: whether std::fs::write succeeded.  The value is the Err returned.
decode_error_returns(written) == IF written THEN "DecodeError" ELSE "IoError"

request_decode_error(written) ==
    /\ artifacts' = IF written
                    THEN artifacts \cup {ArtifactName(match_seq_num)}
                    ELSE artifacts
    /\ calls' = << >>
    /\ slept' = 0
    /\ nfetch' = nfetch + 1
    /\ streak' = 0
    /\ UNCHANGED << match_seq_num, indices, rate, appended, nreq, fetched >>

\* Err(error), any other RequestError: lines 136-141
request_transient ==
    /\ rate' = slow_down(rate)
    /\ calls' = << "slow_down" >>
    /\ slept' = CooldownSecs
    /\ nfetch' = nfetch + 1
    /\ nreq' = nreq + 1
    /\ streak' = streak + 1
    /\ UNCHANGED << match_seq_num, indices, appended, artifacts, fetched >>

\* the pages the fetch may return in this state
Fetchable ==
    {m \in FeedPages(feed) :
        TotalLen(appended) + Pushes[m] <= EntryLimit(feed)}

(***************************************************************************)
(* Collector::save (collector.rs 146-155): one step per bucket             *)
(***************************************************************************)
\* where a finished call leaves its caller
Returned == IF mode = "run" THEN "returned" ELSE "idle"

\* as SaveBucketOk, without masks.clear()
SaveBucketOk_keeps ==
    /\ pc = "save"
    /\ \E key \in todo :
        /\ handed' = [key |-> key, masks |-> indices[key], ok |-> TRUE]
        /\ UNCHANGED lastfail
        /\ persisted' = [persisted EXCEPT ![key] = @ \o indices[key]]
        /\ todo' = todo \ {key}
    /\ UNCHANGED << conf, clock, db, xf,
                    match_seq_num, rate, indices, pc, clt, inchunk, why, err,
                    result, fetched, calls, slept, artifacts, appended,
                    nwait, nfetch, nreq, streak, nsave >>

\* save_indexed_masks(key, masks) succeeded; masks.clear()
SaveBucketOk ==
    /\ pc = "save"
    /\ \E key \in todo :
        /\ handed' = [key |-> key, masks |-> indices[key], ok |-> TRUE]
        /\ UNCHANGED lastfail
        /\ persisted' = [persisted EXCEPT ![key] = @ \o indices[key]]
        /\ indices' = [indices EXCEPT ![key] = << >>]
        /\ todo' = todo \ {key}
    /\ UNCHANGED << conf, clock, db, xf,
                    match_seq_num, rate, pc, clt, inchunk, why, err,
                    result, fetched, calls, slept, artifacts, appended,
                    nwait, nfetch, nreq, streak, nsave >>

\* as SaveBucketErr, the bucket cleared before the result is looked at
SaveBucketErr_clears ==
    /\ pc = "save"
    /\ \E key \in todo :
        /\ handed' = [key |-> key, masks |-> indices[key], ok |-> FALSE]
        /\ lastfail' = [key |-> key, masks |-> indices[key],
                        at |-> Len(persisted[key])]
        /\ indices' = [indices EXCEPT ![key] = << >>]
    /\ result' = "StoreError"
    /\ pc' = Returned
    /\ UNCHANGED << conf, clock, db, xf,
                    match_seq_num, rate, clt, inchunk, todo, why, err,
                    fetched, calls, slept, artifacts, persisted, appended,
                    nwait, nfetch, nreq, streak, nsave >>

\* as SaveBucketErr, the error logged and the loop going on to the next bucket
SaveBucketErr_goes_on ==
    /\ pc = "save"
    /\ \E key \in todo :
        /\ handed' = [key |-> key, masks |-> indices[key], ok |-> FALSE]
        /\ lastfail' = [key |-> key, masks |-> indices[key],
                        at |-> Len(persisted[key])]
        /\ todo' = todo \ {key}
    /\ UNCHANGED << conf, clock, db, xf,
                    match_seq_num, rate, indices, pc, clt, inchunk, why,
                    err, result, fetched, calls, slept, artifacts, persisted,
                    appended, nwait, nfetch, nreq, streak, nsave >>

\* save_indexed_masks(key, masks) failed: `?` returns the error from save,
\* and in run the `?` after save().await returns it from run
SaveBucketErr ==
    /\ pc = "save"
    /\ \E key \in todo :
        /\ handed' = [key |-> key, masks |-> indices[key], ok |-> FALSE]
        /\ lastfail' = [key |-> key, masks |-> indices[key],
                        at |-> Len(persisted[key])]
    /\ result' = "StoreError"
    /\ pc' = Returned
    /\ UNCHANGED << conf, clock, db, xf,
                    match_seq_num, rate, indices, clt, inchunk, todo,
                    why, err, fetched, calls, slept, artifacts, persisted,
                    appended, nwait, nfetch, nreq, streak, nsave >>

\* the loop over the buckets is over: save returns Ok(()).  In run the
\* periodic save is followed by the next chunk, the save after a failed
\* request by `return Err(err)`.
SaveReturnOk ==
    /\ pc = "save"
    /\ todo = {}
    /\ nsave' = nsave + 1
    /\ IF why = "periodic"
       THEN pc' = "wait" /\ UNCHANGED result
       ELSE /\ pc' = Returned
            /\ result' = IF why = "fatal" THEN err ELSE "Ok"
    /\ UNCHANGED << conf, clock, db, xf,
                    match_seq_num, rate, indices, clt, inchunk, todo,
                    why, err, fetched, calls, slept, artifacts, handed,
                    lastfail, persisted, appended, nwait, nfetch, nreq,
                    streak >>

(***************************************************************************)
(* Collector::run (collector.rs 157-181)                                   *)
(***************************************************************************)
\* lines 160-164: a Client::new failed, `?` returns its error
RunClientsErr ==
    /\ pc = "start"
    /\ Len(keys) > 0
    /\ result' = "ClientError"
    /\ pc' = "returned"
    /\ UNCHANGED << conf, clock, db, xf,
                    match_seq_num, rate, indices, clt, inchunk, todo,
                    why, err, fetched, calls, slept, artifacts, handed,
                    lastfail, persisted, appended, nwait, nfetch, nreq,
                    streak, nsave >>

\* lines 160-166: the clients are built; cycle() over no client yields
\* nothing, so the for loop ends at once and line 180 returns Ok(())
RunClientsOk ==
    /\ pc = "start"
    /\ IF Len(keys) = 0
       THEN pc' = "returned" /\ result' = "Ok"
       ELSE pc' = "wait" /\ UNCHANGED result
    /\ UNCHANGED << conf, clock, db, xf,
                    match_seq_num, rate, indices, clt, inchunk, todo,
                    why, err, fetched, calls, slept, artifacts, handed,
                    lastfail, persisted, appended, nwait, nfetch, nreq,
                    streak, nsave >>

\* line 168: self.rate.wait().await
RunWait ==
    /\ pc = "wait"
    /\ nfetch < FetchLimit(feed)
    /\ nwait' = nwait + 1
    /\ pc' = "request"
    /\ UNCHANGED << conf, clock, db, xf,
                    match_seq_num, rate, indices, clt, inchunk, todo,
                    why, err, result, fetched, calls, slept, artifacts,
                    handed, lastfail, persisted, appended, nfetch, nreq,
                    streak, nsave >>

\* as next_in_chunk, the count of the chunk never starting over
next_in_chunk_no_reset ==
    /\ clt' = (clt + 1) % Len(keys)
    /\ inchunk' = inchunk + 1
    /\ IF inchunk + 1 >= batch
       THEN /\ pc' = "save"
            /\ todo' = DOMAIN indices'
            /\ why' = "periodic"
       ELSE /\ pc' = "wait"
            /\ UNCHANGED << todo, why >>

\* as next_in_chunk, every chunk starting over at the first client
next_in_chunk_restarts ==
    IF inchunk + 1 = batch
    THEN /\ clt' = 0
         /\ inchunk' = 0
         /\ pc' = "save"
         /\ todo' = DOMAIN indices'
         /\ why' = "periodic"
    ELSE /\ clt' = (clt + 1) % Len(keys)
         /\ inchunk' = inchunk + 1
         /\ pc' = "wait"
         /\ UNCHANGED << todo, why >>

\* request returned Ok(()): the next client of the cycle; after the last
\* request of a chunk, line 177 calls save
next_in_chunk ==
    /\ clt' = (clt + 1) % Len(keys)
    /\ IF inchunk + 1 = batch
       THEN /\ inchunk' = 0
            /\ pc' = "save"
            /\ todo' = DOMAIN indices'
            /\ why' = "periodic"
       ELSE /\ inchunk' = inchunk + 1
            /\ pc' = "wait"
            /\ UNCHANGED << todo, why >>

RunRequestOk ==
    /\ pc = "request"
    /\ \E matches \in Fetchable : request_ok(matches)
    /\ next_in_chunk
    /\ UNCHANGED << conf, clock, db, xf,
                    err, result, handed, lastfail, persisted, nwait,
                    nsave >>

\* as RunRequestTransient, the error handed back to run's caller
RunRequestTransient_gives_up ==
    /\ pc = "request"
    /\ request_transient
    /\ pc' = "returned"
    /\ result' = "RequestError"
    /\ UNCHANGED << conf, clock, db, xf,
                    clt, inchunk, todo, why, err, handed, lastfail,
                    persisted, nwait, nsave >>

RunRequestTransient ==
    /\ pc = "request"
    /\ request_transient
    /\ next_in_chunk
    /\ UNCHANGED << conf, clock, db, xf,
                    err, result, handed, lastfail, persisted, nwait,
                    nsave >>

\* as RunRequestErr, the error returned without the save
RunRequestErr_no_save ==
    /\ pc = "request"
    /\ \E written \in BOOLEAN :
        /\ request_decode_error(written)
        /\ err' = decode_error_returns(written)
        /\ result' = decode_error_returns(written)
    /\ pc' = "returned"
    /\ UNCHANGED << conf, clock, db, xf,
                    clt, inchunk, todo, why, handed, lastfail, persisted,
                    nwait, nsave >>

\* lines 169-174: request returned Err(err); save is called before the return
RunRequestErr ==
    /\ pc = "request"
    /\ \E written \in BOOLEAN :
        /\ request_decode_error(written)
        /\ err' = decode_error_returns(written)
    /\ pc' = "save"
    /\ todo' = DOMAIN indices
    /\ why' = "fatal"
    /\ UNCHANGED << conf, clock, db, xf,
                    clt, inchunk, result, handed, lastfail,
                    persisted, nwait, nsave >>

Next ==
    \/ RunClientsErr
    \/ RunClientsOk
    \/ RunWait
    \/ RunRequestOk
    \/ RunRequestTransient
    \/ RunRequestErr
    \/ SaveBucketOk
    \/ SaveBucketErr
    \/ SaveReturnOk

(***************************************************************************)
(* Collector::run under a clock: RateControl::wait (collector.rs 36-40)    *)
(* sleeps, a fetch takes time, and every get_match_history_full call is    *)
(* recorded                                                                *)
(***************************************************************************)
\* how much later than the earliest possible instant something ends
Elapsed == {from_millis(ms) : ms \in 0 .. MaxLate}

\* as ClockWait, returning without the sleep
ClockWait_no_sleep ==
    /\ pc = "wait"
    /\ nfetch < FetchLimit(feed)
    /\ \E late \in Elapsed :
        /\ now' = after(now, late)
        /\ last_timestamp' = now'
        /\ waited' = [at |-> now',
                      due |-> after(last_timestamp, rate.interval),
                      interval |-> rate.interval]
    /\ nwait' = nwait + 1
    /\ pc' = "request"
    /\ UNCHANGED << conf, db, xf, asked, match_seq_num, rate, indices, clt,
                    inchunk, todo, why, err, result, fetched, calls, slept,
                    artifacts, handed, lastfail, persisted, appended, nfetch,
                    nreq, streak, nsave >>

\* line 168, self.rate.wait().await: sleep_until(last_timestamp + interval)
\* returns at that instant or later, at once when it has passed; then
\* last_timestamp = Instant::now()
ClockWait ==
    /\ pc = "wait"
    /\ nfetch < FetchLimit(feed)
    /\ \E late \in Elapsed :
        /\ now' = after(later_of(now, after(last_timestamp, rate.interval)),
                        late)
        /\ last_timestamp' = now'
        /\ waited' = [at |-> now',
                      due |-> after(last_timestamp, rate.interval),
                      interval |-> rate.interval]
    /\ nwait' = nwait + 1
    /\ pc' = "request"
    /\ UNCHANGED << conf, db, xf, asked, match_seq_num, rate, indices, clt,
                    inchunk, todo, why, err, result, fetched, calls, slept,
                    artifacts, handed, lastfail, persisted, appended, nfetch,
                    nreq, streak, nsave >>

\* line 108: client.get_match_history_full(self.match_seq_num, 100), called
\* at `now` with the client the cycle is at
get_match_history_full ==
    asked' = [at |-> now, prev_at |-> asked.at, key |-> keys[clt + 1],
              start_at_match_seq_num |-> match_seq_num,
              matches_requested |-> PageSize]

ClockRequestOk ==
    /\ pc = "request"
    /\ get_match_history_full
    /\ \E matches \in Fetchable : request_ok(matches)
    /\ next_in_chunk
    /\ \E took \in Elapsed : now' = after(now, took)
    /\ UNCHANGED << conf, db, xf, last_timestamp, waited, err, result,
                    handed, lastfail, persisted, nwait, nsave >>

\* the fetch failed after some time; the cooldown of line 140 follows
ClockRequestTransient ==
    /\ pc = "request"
    /\ get_match_history_full
    /\ request_transient
    /\ next_in_chunk
    /\ \E took \in Elapsed : now' = after_secs(after(now, took), CooldownSecs)
    /\ UNCHANGED << conf, db, xf, last_timestamp, waited, err, result,
                    handed, lastfail, persisted, nwait, nsave >>

ClockRequestErr ==
    /\ pc = "request"
    /\ get_match_history_full
    /\ \E written \in BOOLEAN :
        /\ request_decode_error(written)
        /\ err' = decode_error_returns(written)
    /\ pc' = "save"
    /\ todo' = DOMAIN indices
    /\ why' = "fatal"
    /\ \E took \in Elapsed : now' = after(now, took)
    /\ UNCHANGED << conf, db, xf, last_timestamp, waited, clt, inchunk,
                    result, handed, lastfail, persisted, nwait, nsave >>

\* run over pages without heroes: no bucket, so save is its return alone
NextClock ==
    \/ RunClientsErr
    \/ RunClientsOk
    \/ ClockWait
    \/ ClockRequestOk
    \/ ClockRequestTransient
    \/ ClockRequestErr
    \/ SaveReturnOk

(***************************************************************************)
(* request and save called directly (both are pub)                         *)
(***************************************************************************)
ApiRequestOk ==
    /\ pc = "idle"
    /\ nfetch < FetchLimit(feed)
    /\ \E matches \in Fetchable : request_ok(matches)
    /\ result' = "Ok"
    /\ UNCHANGED << conf, clock, db, xf,
                    pc, clt, inchunk, todo, why, err, handed,
                    lastfail, persisted, nwait, nsave >>

ApiRequestTransient ==
    /\ pc = "idle"
    /\ nfetch < FetchLimit(feed)
    /\ request_transient
    /\ result' = "Ok"
    /\ UNCHANGED << conf, clock, db, xf,
                    pc, clt, inchunk, todo, why, err, handed,
                    lastfail, persisted, nwait, nsave >>

ApiRequestErr ==
    /\ pc = "idle"
    /\ nfetch < FetchLimit(feed)
    /\ \E written \in BOOLEAN :
        /\ request_decode_error(written)
        /\ result' = decode_error_returns(written)
    /\ UNCHANGED << conf, clock, db, xf,
                    pc, clt, inchunk, todo, why, err, handed,
                    lastfail, persisted, nwait, nsave >>

ApiSave ==
    /\ pc = "idle"
    /\ nsave < MaxApiCalls
    /\ pc' = "save"
    /\ todo' = DOMAIN indices
    /\ why' = "api"
    /\ UNCHANGED << conf, clock, db, xf,
                    match_seq_num, rate, indices, clt, inchunk, err,
                    result, fetched, calls, slept, artifacts, handed,
                    lastfail, persisted, appended, nwait, nfetch, nreq,
                    streak, nsave >>

\* request answered with a page, and save, in any order
NextFlush ==
    \/ ApiRequestOk
    \/ ApiSave
    \/ SaveBucketOk
    \/ SaveBucketErr
    \/ SaveReturnOk

\* request alone, under each outcome of the fetch
NextRequest ==
    \/ ApiRequestOk
    \/ ApiRequestTransient
    \/ ApiRequestErr

(***************************************************************************)
(* RateControl on its own: speed_up and slow_down called in any order      *)
(***************************************************************************)
RcSpeedUp ==
    /\ pc = "gov"
    /\ Len(calls) < MaxCalls
    /\ rate' = speed_up(rate)
    /\ calls' = Append(calls, "speed_up")
    /\ UNCHANGED << conf, clock, db, xf,
                    match_seq_num, indices, pc, clt, inchunk, todo,
                    why, err, result, fetched, slept, artifacts, handed,
                    lastfail, persisted, appended, nwait, nfetch, nreq,
                    streak, nsave >>

RcSlowDown ==
    /\ pc = "gov"
    /\ Len(calls) < MaxCalls
    /\ rate' = slow_down(rate)
    /\ calls' = Append(calls, "slow_down")
    /\ UNCHANGED << conf, clock, db, xf,
                    match_seq_num, indices, pc, clt, inchunk, todo,
                    why, err, result, fetched, slept, artifacts, handed,
                    lastfail, persisted, appended, nwait, nfetch, nreq,
                    streak, nsave >>

NextRate == RcSpeedUp \/ RcSlowDown

(***************************************************************************)
(* Database::query_matches (database.rs 54-92).  The WHERE clause is kept  *)
(* as the two conditions it joins with OR, each a list of side checks      *)
(* joined with AND; the store evaluates it row by row.                     *)
(***************************************************************************)
\* "(bitmapHasAll(bitmapBuild(array(untuple(side))), bitmapBuild([heroes])))"
side_check(side, heroes) ==
    [fn |-> "bitmapHasAll", side |-> side, heroes |-> heroes]

\* as cond_pair, the second condition not swapping the sides
cond_pair_one_way(t1, t2) ==
    CASE t1 = << >> ->
           << << side_check("radiant", t2) >>, << side_check("dire", t2) >> >>
      [] t2 = << >> ->
           << << side_check("radiant", t1) >>, << side_check("dire", t1) >> >>
      [] OTHER ->
           << << side_check("radiant", t1), side_check("dire", t2) >>,
              << side_check("radiant", t1), side_check("dire", t2) >> >>

\* (cond1, cond2) of lines 69-85, when some team is not empty
cond_pair(t1, t2) ==
    CASE t1 = << >> ->
           << << side_check("radiant", t2) >>, << side_check("dire", t2) >> >>
      [] t2 = << >> ->
           << << side_check("radiant", t1) >>, << side_check("dire", t1) >> >>
      [] OTHER ->
           << << side_check("radiant", t1), side_check("dire", t2) >>,
              << side_check("radiant", t2), side_check("dire", t1) >> >>

\* "SELECT ?fields FROM drafts WHERE (cond1 OR cond2)
\*  ORDER BY match_id DESC LIMIT lim OFFSET off"
select_query(t1, t2, lim, off) ==
    [where |-> cond_pair(t1, t2), order_by |-> "match_id DESC",
     limit |-> lim, offset |-> off]

\* the store: bitmapHasAll(bitmapBuild(side), bitmapBuild(heroes))
bitmapHasAll(row, check) ==
    LET stored == IF check.side = "radiant" THEN row.radiant ELSE row.dire
    IN  {check.heroes[i] : i \in DOMAIN check.heroes}
            \subseteq {stored[i] : i \in DOMAIN stored}

\* the store: a row passes WHERE (cond1 OR cond2)
where_holds(row, conds) ==
    \E c \in DOMAIN conds :
        \A i \in DOMAIN conds[c] : bitmapHasAll(row, conds[c][i])

\* the store: ORDER BY match_id DESC
RECURSIVE order_desc(_)
order_desc(rows) ==
    IF rows = {} THEN << >>
    ELSE LET top == CHOOSE r \in rows :
                        \A o \in rows : o.match_id <= r.match_id
         IN  << top >> \o order_desc(rows \ {top})

\* the store: fetch_all of a select_query over the rows of drafts
fetch_all(query, rows) ==
    LET hits == order_desc({r \in rows : where_holds(r, query.where)})
    IN  SubSeq(hits, query.offset + 1,
               Min(Len(hits), query.offset + query.limit))

\* what query_matches returns, and whether it sent a query to the store
query_matches(t1, t2, lim, off, rows) ==
    IF t1 = << >> /\ t2 = << >>
    THEN [sent |-> FALSE, rows |-> << >>]
    ELSE [sent |-> TRUE,
          rows |-> fetch_all(select_query(t1, t2, lim, off), rows)]

\* hero lists a caller may pass: up to DraftSize heroes, in any order,
\* repeated or not
Teams == SeqsUpTo(HeroIds, DraftSize)

\* the rows drafts may hold
DraftRows ==
    [match_id : {10}, radiant : [1 .. DraftSize -> HeroIds],
     dire : [1 .. DraftSize -> HeroIds]]

QueryMatches ==
    /\ pc = "query"
    /\ LET r == query_matches(team1, team2, limit, offset, table)
       IN  /\ answer' = r.rows
           /\ scans' = IF r.sent THEN scans + 1 ELSE scans
    /\ pc' = "queried"
    /\ UNCHANGED << conf, clock, xf, team1, team2, limit, offset, table,
                    match_seq_num, rate, indices, clt, inchunk, todo, why,
                    err, result, fetched, calls, slept, artifacts, handed,
                    lastfail, persisted, appended, nwait, nfetch, nreq,
                    nsave, streak >>

(***************************************************************************)
(* MatchMask::from on its own (dota2/mod.rs 66-85)                         *)
(***************************************************************************)
\* slot bytes at both ends of each half of u8
SlotBytes == {0, 127, 128, 255}

\* match records over every slot byte and every hero identity
Records ==
    [match_id : {10 + n : n \in SeqNums},
     match_seq_num : {0},
     players : [1 .. NumPlayers ->
                   [player_slot : SlotBytes, hero_id : HeroIds]]]

Transform ==
    /\ pc = "mask"
    /\ napplied < MaxApply
    /\ xf_mask' = MatchMask_from(xf_value)
    /\ napplied' = napplied + 1
    /\ UNCHANGED << coll, clock, db, xf_value >>

(***************************************************************************)
(* Collector::new (collector.rs 62-86) and the specifications              *)
(***************************************************************************)
Millis == 0 .. MaxMillis

KeyLists == {[i \in 1 .. k |-> i] : k \in 0 .. MaxKeys}

Collector_new(min, max, start_idx, ks, insert_batch_size) ==
    /\ match_seq_num = start_idx
    /\ rate = RateControl_new(min, max)
    /\ indices = << >>
    /\ keys = ks
    /\ batch = insert_batch_size
    /\ clt = 0
    /\ inchunk = 0
    /\ todo = {}
    /\ why = "none"
    /\ err = "none"
    /\ result = "none"
    /\ fetched = << >>
    /\ calls = << >>
    /\ slept = 0
    /\ artifacts = {}
    /\ handed = NoCall
    /\ lastfail = NoFail
    /\ persisted = NoMasks
    /\ appended = NoMasks
    /\ nwait = 0
    /\ nfetch = 0
    /\ nreq = 0
    /\ nsave = 0
    /\ streak = 0
    /\ now = Epoch
    /\ last_timestamp = now
    /\ waited = NoWait
    /\ asked = NoAsk

\* run() on a fresh Collector; min_interval 1 ms, max_interval MaxMillis ms
Init ==
    /\ NoQuery
    /\ NoTransform
    /\ mode = "run"
    /\ feed = "narrow"
    /\ pc = "start"
    /\ \E ks \in KeyLists, b \in 1 .. MaxBatch :
        Collector_new(1, MaxMillis, 1, ks, b)

Spec == Init /\ [][Next]_vars

\* request (answered with a page) and save, in any order, on a fresh Collector
InitFlush ==
    /\ NoQuery
    /\ NoTransform
    /\ mode = "api"
    /\ feed = "narrow"
    /\ pc = "idle"
    /\ \E start_idx \in 0 .. 1 :
        Collector_new(1, MaxMillis, start_idx, << 1 >>, 1)

SpecFlush == InitFlush /\ [][NextFlush]_vars

\* request (answered with a page in which some hero_id is 0) and save, in
\* any order, on a fresh Collector
InitIndex ==
    /\ NoQuery
    /\ NoTransform
    /\ mode = "api"
    /\ feed = "holes"
    /\ pc = "idle"
    /\ Collector_new(1, MaxMillis, 0, << 1 >>, 1)

SpecIndex == InitIndex /\ [][NextFlush]_vars

\* query_matches called with every pair of hero lists, over every row
InitQuery ==
    /\ NoTransform
    /\ mode = "query"
    /\ feed = "tiny"
    /\ pc = "query"
    /\ Collector_new(1, MaxMillis, 0, << >>, 1)
    /\ team1 \in Teams
    /\ team2 \in Teams
    /\ \E r \in DraftRows : table = {r}
    /\ limit \in 0 .. Cardinality(table)
    /\ offset \in 0 .. Cardinality(table)
    /\ answer = << >>
    /\ scans = 0

SpecQuery == InitQuery /\ [][QueryMatches]_vars

\* run() on a fresh Collector, under the clock
InitClock ==
    /\ NoQuery
    /\ NoTransform
    /\ mode = "run"
    /\ feed = "paced"
    /\ pc = "start"
    /\ \E ks \in KeyLists, b \in 1 .. MaxBatch :
        Collector_new(1, MaxMillis, 0, ks, b)

SpecClock == InitClock /\ [][NextClock]_vars

\* MatchMask::from applied to every match record
InitMask ==
    /\ NoQuery
    /\ mode = "mask"
    /\ feed = "tiny"
    /\ pc = "mask"
    /\ Collector_new(1, MaxMillis, 0, << >>, 1)
    /\ xf_value \in Records
    /\ xf_mask = [match_id |-> 0, radiant |-> 0, dire |-> 0]
    /\ napplied = 0

SpecMask == InitMask /\ [][Transform]_vars

\* one request over every page of the wide feed, from every cursor
InitCollect ==
    /\ NoQuery
    /\ NoTransform
    /\ mode = "api"
    /\ feed = "wide"
    /\ pc = "idle"
    /\ \E start_idx \in 0 .. MaxSeqNum + 1 :
        Collector_new(1, MaxMillis, start_idx, << 1 >>, 1)

SpecCollect == InitCollect /\ [][ApiRequestOk]_vars

\* requests under every configuration of the governor
InitPace ==
    /\ NoQuery
    /\ NoTransform
    /\ mode = "api"
    /\ feed = "tiny"
    /\ pc = "idle"
    /\ \E min \in Millis, max \in Millis :
        Collector_new(min, max, 0, << 1 >>, 1)

SpecPace == InitPace /\ [][NextRequest]_vars

\* a RateControl under every configuration; calls logs every call made
InitRate ==
    /\ NoQuery
    /\ NoTransform
    /\ mode = "gov"
    /\ feed = "tiny"
    /\ pc = "gov"
    /\ \E min \in Millis, max \in Millis :
        Collector_new(min, max, 0, << >>, 1)

SpecRate == InitRate /\ [][NextRate]_vars

(***************************************************************************)
(* Operators used to state the properties                                  *)
(***************************************************************************)
IsPrefix(a, b) == Len(a) <= Len(b) /\ SubSeq(b, 1, Len(a)) = a

Last(q) == q[Len(q)]

Reverse(q) == [i \in 1 .. Len(q) |-> q[Len(q) + 1 - i]]

MaxOf(S) == CHOOSE x \in S : \A y \in S : y <= x

\* the number a sequence of decimal digits writes
RECURSIVE DecimalValue(_)
DecimalValue(d) ==
    IF d = << >> THEN 0
    ELSE 10 * DecimalValue(SubSeq(d, 1, Len(d) - 1)) + Last(d)

\* an artifact name: the decimal digits of n, then the suffix
NamesCursor(a, n) ==
    /\ Len(a) >= 2
    /\ Last(a) = "-error.json"
    /\ \A i \in 1 .. Len(a) - 1 : a[i] \in 0 .. 9
    /\ DecimalValue(SubSeq(a, 1, Len(a) - 1)) = n

\* the bucket of hero h, empty when the map has no entry for h
Bucket(h) == IF h \in DOMAIN indices THEN indices[h] ELSE << >>

Range(q) == {q[i] : i \in DOMAIN q}

\* the step is one save_indexed_masks call (from a state inside save with
\* buckets left, every step is one)
PersistStep == pc = "save" /\ todo # {}

(***************************************************************************)
(* C1 (SpecFlush).  A bucket is cleared only by the step in which its own  *)
(* save_indexed_masks call succeeded, and that call was handed the whole   *)
(* bucket.  When the call for bucket B fails, save returns the error, and  *)
(* no bucket changes: B and the buckets not yet visited keep their         *)
(* entries.  Every call for a bucket is handed exactly what was pushed for *)
(* that hero and not yet accepted by the store, which begins with the      *)
(* entries B held when its call last failed.                               *)
(***************************************************************************)
C1_FlushKeepsUnpersisted ==
    [][ /\ \A k \in DOMAIN indices :
            (indices[k] # << >> /\ indices'[k] = << >>) =>
                /\ PersistStep
                /\ handed' = [key |-> k, masks |-> indices[k], ok |-> TRUE]
        /\ DOMAIN indices \subseteq DOMAIN indices'
        /\ PersistStep =>
            /\ handed'.key \in todo
            /\ handed'.masks = indices[handed'.key]
            /\ persisted[handed'.key] \o handed'.masks = appended[handed'.key]
            /\ (lastfail.key = handed'.key
                    /\ lastfail.at = Len(persisted[handed'.key]))
                => IsPrefix(lastfail.masks, handed'.masks)
            /\ \A k \in todo \ {handed'.key} : indices'[k] = indices[k]
        /\ (PersistStep /\ ~handed'.ok) =>
            /\ result' = "StoreError"
            /\ pc' = "idle"
            /\ indices' = indices
            /\ persisted' = persisted
      ]_vars

\* a bucket whose call failed was pushed to again and then handed over whole
C1_Witness ==
    /\ handed.ok
    /\ handed.key = lastfail.key
    /\ lastfail.masks # << >>
    /\ Len(persisted[handed.key]) - Len(handed.masks) = lastfail.at
    /\ Len(handed.masks) > Len(lastfail.masks)
    /\ indices[handed.key] = << >>

(***************************************************************************)
(* C2 (SpecPace).  Over any sequence of request outcomes match_seq_num     *)
(* never decreases.  A request answered with a page sets it to the largest *)
(* of its value and every fetched match_seq_num + 1; a transient failure   *)
(* and a decode error leave it as it is.                                   *)
(***************************************************************************)
C2_CursorMonotone ==
    [][ /\ match_seq_num' >= match_seq_num
        /\ nfetch' = nfetch + 1
        /\ result' = "Ok" \/ match_seq_num' = match_seq_num
        /\ slept' # 0 => match_seq_num' = match_seq_num
        /\ (result' = "Ok" /\ slept' = 0) =>
            match_seq_num' =
                MaxOf({match_seq_num} \cup
                      {fetched'[i].match_seq_num + 1 :
                          i \in 1 .. Len(fetched')})
      ]_vars

\* the cursor was raised, then kept by a full page of older matches and
\* by the transient failure after it
C2_Witness ==
    /\ nfetch = 3
    /\ streak = 1
    /\ match_seq_num = MaxSeqNum + 1
    /\ Len(fetched) = PageSize
    /\ \A i \in 1 .. Len(fetched) : fetched[i].match_seq_num = 0

(***************************************************************************)
(* C3 (SpecCollect).  The cursor after a successful request is the largest *)
(* of the previous cursor and every fetched match's match_seq_num + 1, and *)
(* collect returns the same for the page in reverse order.                 *)
(***************************************************************************)
C3_CollectReturnsMax ==
    [][ nfetch' = nfetch + 1 =>
            /\ match_seq_num' =
                 MaxOf({match_seq_num} \cup
                       {fetched'[i].match_seq_num + 1 :
                           i \in 1 .. Len(fetched')})
            /\ collect(match_seq_num, indices, Reverse(fetched')).right
                 = match_seq_num'
      ]_vars

\* a page out of order, with a gap, fetched from a cursor below it
C3_Witness ==
    /\ Len(fetched) = 2
    /\ fetched[1].match_seq_num = 2
    /\ fetched[2].match_seq_num = 0
    /\ match_seq_num = 3

(***************************************************************************)
(* C4 (Spec).  The step in which a fetch fails with a decode error writes  *)
(* the artifact named from the cursor (when the write succeeds), persists  *)
(* nothing, and leaves run inside one save over every bucket.  From then   *)
(* on there is no wait, no fetch and no collect: every step is one         *)
(* save_indexed_masks call or the end of that save, and run returns only   *)
(* when the save has visited every bucket or one of its calls has failed.  *)
(***************************************************************************)
C4_DecodeErrorThenFlushThenReturn ==
    [][ /\ (err = "none" /\ err' # "none") =>
            /\ pc = "request" /\ pc' = "save" /\ why' = "fatal"
            /\ todo' = DOMAIN indices
            /\ indices' = indices /\ persisted' = persisted
            /\ handed' = handed /\ nsave' = nsave
            /\ artifacts \subseteq artifacts'
            /\ \A a \in artifacts' \ artifacts : NamesCursor(a, match_seq_num)
            /\ err' = "DecodeError" =>
                   \E a \in artifacts' : NamesCursor(a, match_seq_num)
        /\ err # "none" =>
            /\ pc = "save"
            /\ pc' \in {"save", "returned"}
            /\ err' = err
            /\ nwait' = nwait /\ nfetch' = nfetch /\ nreq' = nreq
            /\ match_seq_num' = match_seq_num
            /\ appended' = appended
            /\ artifacts' = artifacts
            /\ rate' = rate
            /\ nsave' = nsave + (IF todo = {} THEN 1 ELSE 0)
            /\ pc' = "returned" => (todo = {} \/ ~handed'.ok)
      ]_vars

\* run returned the decode error after the artifact was written and the
\* buffered masks were handed to the store
C4_Witness ==
    /\ pc = "returned"
    /\ result = "DecodeError"
    /\ artifacts # {}
    /\ handed.ok /\ handed.masks # << >>
    /\ \A k \in DOMAIN indices : indices[k] = << >>
    /\ DOMAIN indices = NonZeroHeroes

(***************************************************************************)
(* C5 (Spec).  Once a fetch has failed with a decode error, what run       *)
(* returns is that decode error, whether or not the artifact write and the *)
(* save that precede the return succeeded.                                 *)
(***************************************************************************)
C5_RunReturnsDecodeError ==
    (pc = "returned" /\ err # "none") => result = "DecodeError"

(***************************************************************************)
(* C6 (Spec).  With at least one credential, while run has neither met a   *)
(* decode error nor returned: between requests the number of completed     *)
(* saves is floor(completed requests / batch), and a save is in progress   *)
(* only right after a request that completed a multiple of batch, the save *)
(* then in progress being the one that brings the count to the quotient.   *)
(***************************************************************************)
C6_FlushEveryBatch ==
    (mode = "run" /\ Len(keys) >= 1 /\ err = "none" /\ result = "none") =>
        /\ pc \in {"start", "wait", "request", "save"}
        /\ pc \in {"start", "wait", "request"} =>
            /\ nsave = nreq \div batch
            /\ inchunk = nreq % batch
        /\ pc = "save" =>
            /\ why = "periodic"
            /\ nreq > 0
            /\ nreq % batch = 0
            /\ nsave = (nreq \div batch) - 1

\* four requests, the last one a transient failure, served by two
\* credentials in chunks of two: two saves done
C6_Witness ==
    /\ pc = "wait"
    /\ Len(keys) = 2
    /\ batch = 2
    /\ nreq = 4
    /\ nsave = 2
    /\ slept = 5

(***************************************************************************)
(* C7 (Spec).  The step of a transient failure makes exactly one           *)
(* slow_down call, sleeps the 5 seconds, and leaves run at the next wait   *)
(* or in the periodic save; run has not returned.  While the latest fetch  *)
(* outcome is a transient failure run returns only through a failed        *)
(* periodic save, and at the next wait the wait can be taken, however many *)
(* failures came in a row.                                                 *)
(***************************************************************************)
C7_TransientNeverEndsRun ==
    /\ [][ /\ (pc = "request" /\ streak' = streak + 1) =>
               /\ calls' = << "slow_down" >>
               /\ rate'.interval =
                    (IF 2 * rate.interval <= rate.max_interval
                     THEN 2 * rate.interval ELSE rate.max_interval)
               /\ slept' = 5
               /\ nreq' = nreq + 1
               /\ pc' \in {"wait", "save"}
               /\ pc' = "save" => why' = "periodic"
               /\ result' = "none" /\ err' = "none"
           /\ (streak' > 0 /\ pc' = "returned") =>
               /\ why' = "periodic"
               /\ result' = "StoreError"
         ]_vars
    /\ []((streak > 0 /\ pc = "wait" /\ nfetch < MaxRequests)
            => ENABLED RunWait)

\* three transient failures in a row, and the fourth request under way
C7_Witness ==
    /\ streak = 3
    /\ nfetch = 3
    /\ pc = "request"
    /\ result = "none"

(***************************************************************************)
(* C8 (SpecRate).  The interval of a new RateControl is twice              *)
(* min_interval.  speed_up sets it to the larger of min_interval and       *)
(* interval * 9 / 10 (rounded down to a nanosecond), slow_down to the      *)
(* smaller of max_interval and interval * 2.  After a slow_down the        *)
(* interval is at most max_interval, after a speed_up at least             *)
(* min_interval.                                                           *)
(***************************************************************************)
C8_GovernorSteps ==
    /\ rate.interval = 2 * rate.min_interval
    /\ [][ /\ rate'.min_interval = rate.min_interval
           /\ rate'.max_interval = rate.max_interval
           /\ Len(calls') = Len(calls) + 1
           /\ Last(calls') = "speed_up" =>
               /\ IF 9 * rate.interval >= 10 * rate.min_interval
                  THEN /\ 10 * rate'.interval <= 9 * rate.interval
                       /\ 9 * rate.interval < 10 * rate'.interval + 10
                  ELSE rate'.interval = rate.min_interval
               /\ rate'.interval >= rate'.min_interval
           /\ Last(calls') = "slow_down" =>
               /\ IF 2 * rate.interval <= rate.max_interval
                  THEN rate'.interval = 2 * rate.interval
                  ELSE rate'.interval = rate.max_interval
               /\ rate'.interval <= rate'.max_interval
         ]_vars

\* min_interval = max_interval: slow_down was clamped to max_interval, and
\* the speed_up after it was clamped to min_interval
C8_Witness ==
    /\ calls = << "slow_down", "speed_up" >>
    /\ rate.min_interval > 0
    /\ rate.min_interval = rate.max_interval
    /\ rate.interval = rate.min_interval

(***************************************************************************)
(* C9 (SpecCollect).  After collect over a page, the bucket of each hero   *)
(* holds the mask of each match whose roster carries that hero, once per   *)
(* match and in page order, and only the heroes carried have a bucket.     *)
(***************************************************************************)
HeroesOf(mat) ==
    {mat.players[i].hero_id : i \in DOMAIN mat.players} \ {0}

OncePerMatch(matches, h) ==
    LET carrying == SelectSeq(matches, LAMBDA mat : h \in HeroesOf(mat))
    IN  [i \in 1 .. Len(carrying) |-> MatchMask_from(carrying[i])]

C9_OncePerDistinctHero ==
    nfetch = 1 =>
        /\ DOMAIN indices =
             UNION {HeroesOf(fetched[i]) : i \in 1 .. Len(fetched)}
        /\ \A h \in DOMAIN indices : indices[h] = OncePerMatch(fetched, h)

(***************************************************************************)
(* C10 (Spec).  The step in which a save_indexed_masks call fails, in the  *)
(* periodic save or in the save after a decode error, is the step in which *)
(* run returns, and it returns the store's error; no bucket changes in it. *)
(* Once run has returned nothing happens any more.                         *)
(***************************************************************************)
C10_FlushFailureEndsRun ==
    [][ /\ (PersistStep /\ ~handed'.ok) =>
            /\ pc' = "returned"
            /\ result' = "StoreError"
            /\ indices' = indices
        /\ pc' # "returned" => result' = "none"
        /\ pc # "returned"
      ]_vars

\* the periodic save failed at its first bucket, with another one left
C10_Witness ==
    /\ pc = "returned"
    /\ result = "StoreError"
    /\ why = "periodic"
    /\ todo = NonZeroHeroes
    /\ \A k \in todo : indices[k] # << >>
    /\ nfetch < MaxRequests

(***************************************************************************)
(* C11 (Spec).  Whatever the credentials, the batch size and the outcomes  *)
(* of the fetches and of the store, run returns only after a fatal fetch   *)
(* failure or because a flush failed, and never with a success result.     *)
(***************************************************************************)
C11_RunNeverReturnsOk ==
    pc = "returned" =>
        /\ result # "Ok"
        /\ err # "none" \/ result = "StoreError"

(***************************************************************************)
(* C17 (SpecPace).  A request answered with a page applies speed_up once;  *)
(* a page of fewer than PageSize matches (an empty one too) is followed by *)
(* slow_down in the same request, and then the interval is not smaller     *)
(* than before the request; a full page applies speed_up alone.  Stated    *)
(* for the configurations with 0 < min_interval <= max_interval.           *)
(***************************************************************************)
C17_AdjustmentsOnSuccess ==
    [][ (/\ result' = "Ok" /\ slept' = 0
         /\ 0 < rate.min_interval
         /\ rate.min_interval <= rate.max_interval) =>
            /\ Len(fetched') = PageSize =>
                /\ calls' = << "speed_up" >>
                /\ rate' = speed_up(rate)
            /\ Len(fetched') < PageSize =>
                /\ calls' = << "speed_up", "slow_down" >>
                /\ rate' = slow_down(speed_up(rate))
                /\ rate'.interval >= rate.interval
      ]_vars

(***************************************************************************)
(* C19 (SpecRate).  When 0 < min_interval <= max_interval, the interval    *)
(* lies between min_interval and max_interval in the new RateControl and   *)
(* after every sequence of speed_up and slow_down calls.                   *)
(***************************************************************************)
C19_IntervalWithinBounds ==
    (0 < rate.min_interval /\ rate.min_interval <= rate.max_interval) =>
        /\ rate.min_interval <= rate.interval
        /\ rate.interval <= rate.max_interval

(***************************************************************************)
(* C16 (SpecFlush).  A persistence call that succeeds empties its bucket   *)
(* and keeps every key; when a save has visited every bucket without a     *)
(* failure, every bucket is empty.  The entries the store accepted for a   *)
(* hero, followed by the entries in its bucket, are at all times exactly   *)
(* the entries appended for that hero: an entry accepted by the store      *)
(* leaves the bucket and is not handed over by any later call.             *)
(***************************************************************************)
C16_FlushedOnce ==
    /\ [](\A h \in NonZeroHeroes : persisted[h] \o Bucket(h) = appended[h])
    /\ []((pc = "save" /\ todo = {}) =>
              \A k \in DOMAIN indices : indices[k] = << >>)
    /\ [][ /\ (PersistStep /\ handed'.ok) =>
               /\ indices'[handed'.key] = << >>
               /\ DOMAIN indices' = DOMAIN indices
               /\ persisted'[handed'.key] =
                      persisted[handed'.key] \o handed'.masks
               /\ Len(persisted[handed'.key]) + Len(handed'.masks)
                      = Len(appended[handed'.key])
           /\ nsave' = nsave + 1 =>
               /\ result' = "Ok"
               /\ DOMAIN indices' = DOMAIN indices
               /\ \A k \in DOMAIN indices' : indices'[k] = << >>
         ]_vars

\* two saves without a failure, a page collected before each: every hero's
\* bucket exists and is empty, and the second save handed over only the
\* entry appended after the first
C16_Witness ==
    /\ pc = "idle"
    /\ nsave = 2
    /\ lastfail = NoFail
    /\ DOMAIN indices = NonZeroHeroes
    /\ \A h \in NonZeroHeroes : indices[h] = << >> /\ Len(persisted[h]) = 2
    /\ Len(handed.masks) = 1

(***************************************************************************)
(* C20 (Spec).  At every point of a run, the mask of every fetched match   *)
(* is, for every nonzero hero of its roster, in that hero's bucket or      *)
(* among the masks a successful persistence call was handed for that hero. *)
(* When run returns the error of a failed request (the save before the     *)
(* return having succeeded), every bucket is empty.                        *)
(***************************************************************************)
C20_NoSilentLoss ==
    /\ \A h \in NonZeroHeroes :
          Range(appended[h]) \subseteq Range(Bucket(h)) \cup Range(persisted[h])
    /\ (pc = "returned" /\ err # "none" /\ result = err) =>
          \A k \in DOMAIN indices : indices[k] = << >>

\* a periodic save stored the masks of one page; the masks of a later page
\* are in the buckets when a failing save ends the run
C20_Witness ==
    /\ pc = "returned"
    /\ result = "StoreError"
    /\ \E h \in NonZeroHeroes : persisted[h] # << >>
    /\ \E k \in DOMAIN indices :
          indices[k] # << >> /\ Range(indices[k]) \cap Range(persisted[k]) = {}

(***************************************************************************)
(* C14 (SpecIndex).  After any sequence of requests answered with pages    *)
(* whose rosters hold hero_id 0 (for some players or for all) and of       *)
(* saves, the index has no bucket for hero 0, no persistence call was made *)
(* for hero 0, and a request appends one entry per player whose hero_id is *)
(* not 0 and none for the others.                                          *)
(***************************************************************************)
C14_NoBucketForZero ==
    /\ [](/\ 0 \notin DOMAIN indices
          /\ DOMAIN indices \subseteq NonZeroHeroes
          /\ handed # NoCall => handed.key # 0
          /\ TotalLen(indices) + TotalLen(persisted) = TotalLen(appended))
    /\ [][ nfetch' = nfetch + 1 =>
             TotalLen(indices') =
                 TotalLen(indices) +
                 Cardinality({ij \in (1 .. Len(fetched')) \X (1 .. NumPlayers) :
                     fetched'[ij[1]].players[ij[2]].hero_id # 0})
         ]_vars

\* after a save, a page was collected that holds a match with hero_id 0 for
\* every player and a match with hero_id 0 for some
C14_Witness ==
    /\ nfetch = 2
    /\ nsave = 1
    /\ TotalLen(persisted) >= 1
    /\ Len(fetched) = 2
    /\ \A j \in 1 .. NumPlayers : fetched[1].players[j].hero_id = 0
    /\ \E j \in 1 .. NumPlayers : fetched[2].players[j].hero_id = 0
    /\ \E j \in 1 .. NumPlayers : fetched[2].players[j].hero_id # 0
    /\ TotalLen(indices) = 1

(***************************************************************************)
(* C13 (SpecMask).  MatchMask::from copies match_id; bit h of radiant is   *)
(* set exactly when some player whose slot byte is below 128 (high bit     *)
(* clear) has hero_id h, bit h of dire exactly when some player whose slot *)
(* byte is 128 or more has hero_id h; no bit above the largest hero        *)
(* identity is set; applied again to the same record it returns the same   *)
(* mask.                                                                   *)
(***************************************************************************)
Bit(m, h) == (m \div (2 ^ h)) % 2 = 1

C13_RosterTransform ==
    [][ napplied' = napplied + 1 =>
            /\ xf_mask'.match_id = xf_value.match_id
            /\ \A h \in HeroIds :
                /\ Bit(xf_mask'.radiant, h) <=>
                     \E i \in DOMAIN xf_value.players :
                         /\ xf_value.players[i].player_slot < 128
                         /\ xf_value.players[i].hero_id = h
                /\ Bit(xf_mask'.dire, h) <=>
                     \E i \in DOMAIN xf_value.players :
                         /\ xf_value.players[i].player_slot >= 128
                         /\ xf_value.players[i].hero_id = h
            /\ xf_mask'.radiant < 2 ^ (MaxHero + 1)
            /\ xf_mask'.dire < 2 ^ (MaxHero + 1)
            /\ napplied >= 1 => xf_mask' = xf_mask
      ]_vars

\* the transform applied twice to a record whose first two players are on
\* Radiant (slot bytes 0 and 127) with the same hero: that bit is set once
C13_Witness ==
    /\ napplied = 2
    /\ xf_value.players[1] = [player_slot |-> 0, hero_id |-> 1]
    /\ xf_value.players[2] = [player_slot |-> 127, hero_id |-> 1]
    /\ Bit(xf_mask.radiant, 1)
    /\ xf_mask.radiant < 4
    /\ xf_mask.match_id = xf_value.match_id

(***************************************************************************)
(* C12 (SpecQuery).  query_matches over the hero lists team1 and team2:    *)
(* when both are empty it returns nothing and sends no query; otherwise it *)
(* sends one query, and a row is selected exactly when, with one list S    *)
(* non-empty, S is contained in radiant or in dire, and with both          *)
(* non-empty, team1 is in radiant and team2 in dire or team2 in radiant    *)
(* and team1 in dire.  The rows returned are selected rows, all of them    *)
(* when limit and offset leave them in, and the same rows as for the two   *)
(* lists exchanged.                                                        *)
(***************************************************************************)
Selected(A, B, row) ==
    LET radiant == Range(row.radiant)
        dire == Range(row.dire)
    IN  CASE A = {} /\ B = {} -> FALSE
          [] B = {} -> A \subseteq radiant \/ A \subseteq dire
          [] A = {} -> B \subseteq radiant \/ B \subseteq dire
          [] OTHER  -> \/ A \subseteq radiant /\ B \subseteq dire
                       \/ B \subseteq radiant /\ A \subseteq dire

C12_QuerySelects ==
    [][ pc = "query" =>
          LET A == Range(team1)
              B == Range(team2)
              hits == {r \in table : Selected(A, B, r)}
          IN  /\ (A = {} /\ B = {}) => (answer' = << >> /\ scans' = scans)
              /\ (A # {} \/ B # {}) => scans' = scans + 1
              /\ Range(answer') \subseteq hits
              /\ (offset = 0 /\ limit >= Cardinality(table)) =>
                     Range(answer') = hits
              /\ answer' =
                   query_matches(team2, team1, limit, offset, table).rows
      ]_vars

\* a row returned for team1 = [1], team2 = [2] because team2 is on Radiant
\* and team1 on Dire: selected by the second condition only
C12_Witness ==
    /\ pc = "queried"
    /\ team1 = << 1 >>
    /\ team2 = << 2 >>
    /\ Len(answer) = 1
    /\ 1 \notin Range(answer[1].radiant)
    /\ 2 \in Range(answer[1].radiant)
    /\ 1 \in Range(answer[1].dire)
    /\ scans = 1

(***************************************************************************)
(* C15 (SpecClock).  In run, a fetch is issued only from the position      *)
(* right after a completed wait, at the instant that wait returned, and    *)
(* the position after it is never a fetch again: waits and fetches         *)
(* alternate, one wait before each fetch.  Every fetch asks for PageSize   *)
(* matches starting at the current match_seq_num, and the fetch number i   *)
(* (from 0) is made with credential i mod K of the K credentials,          *)
(* whatever the batch size and the outcomes before it.                     *)
(***************************************************************************)
C15_RequestSequencing ==
    /\ [](IF pc = "request" THEN nwait = nfetch + 1 ELSE nwait = nfetch)
    /\ [][ /\ nfetch' = nfetch + 1 =>
               /\ pc = "request"
               /\ pc' # "request"
               /\ nwait' = nwait
               /\ asked'.at = waited.at
               /\ asked'.start_at_match_seq_num = match_seq_num
               /\ asked'.matches_requested = PageSize
               /\ asked'.key = keys[(nfetch % Len(keys)) + 1]
           /\ nfetch' # nfetch + 1 => asked' = asked
           /\ nwait' = nwait + 1 => (pc = "wait" /\ pc' = "request")
           /\ keys' = keys
         ]_vars

\* the fourth fetch of a run with two credentials and a save after every
\* request, an earlier fetch having failed: made with the second credential,
\* from a cursor that has moved
C15_Witness ==
    /\ nfetch = 4
    /\ Len(keys) = 2
    /\ batch = 1
    /\ asked.key = keys[2]
    /\ asked.start_at_match_seq_num > 0
    /\ asked.at.secs >= CooldownSecs

(***************************************************************************)
(* C18 (SpecClock).  wait returns no earlier than last_timestamp plus the  *)
(* interval it finds when called, then sets last_timestamp to the current  *)
(* time and changes no interval.  So from the second fetch of a run on, a  *)
(* fetch starts no earlier than the start of the fetch before it plus the  *)
(* interval in effect at the wait between them, after whatever speed_up    *)
(* and slow_down calls the earlier request made.                           *)
(***************************************************************************)
C18_WaitSpacing ==
    [][ /\ nwait' = nwait + 1 =>
            /\ not_after(after(last_timestamp, rate.interval), now')
            /\ last_timestamp' = now'
            /\ waited'.interval = rate.interval
            /\ rate' = rate
        /\ (nfetch' = nfetch + 1 /\ nfetch >= 1) =>
            /\ asked'.prev_at = asked.at
            /\ waited.interval = rate.interval
            /\ not_after(after(asked'.prev_at, rate.interval), asked'.at)
        /\ not_after(now, now')
      ]_vars

\* two fetches exactly one interval apart, the interval having been changed
\* by the first request (a full page: speed_up alone)
C18_Witness ==
    /\ nfetch = 2
    /\ asked.at = after(asked.prev_at, waited.interval)
    /\ waited.interval < 2 * rate.min_interval
    /\ waited.interval > rate.min_interval

====
